---------------------------- MODULE Spec2Model ----------------------------
(***************************************************************************)
(* Appointment booking, status transitions and clinical-note creation of   *)
(* the healthme backend, as a state machine over the Appointment and       *)
(* ClinicalNote collections.  Every request handler is cut at the awaits   *)
(* where another request can make a difference: between a read and the     *)
(* write that depends on it, and between the writes of a transaction.      *)
(* The synchronous prefix of a handler (destructuring, validation) and its *)
(* reads are one step: nothing can observe a request before it writes, the *)
(* set of practitioners only grows, and the reads of a transaction come    *)
(* from one snapshot.                                                      *)
(***************************************************************************)
EXTENDS Integers, Sequences, FiniteSets, TLC

\* ---------------------------------------------------------------- bounds
MaxAppointments == 2
\* appointments booked in the specification of the clinical-note handler
MaxNoted == 1
\* the instants Date.now() can return
MaxTime == 2

\* ------------------------------------------------------------ value sets
Req == {"r1", "r2"}
PractitionerIds == {"pr1", "pr2"}
TimeSlots == {"10:00"}
DateStrings == {"2024-05-01", "2024-05-01T00:00:00.000Z", "2024-05-02", "someday"}
NoValue == "undefined"

Statuses == {"pending", "confirmed", "completed", "cancelled", "rescheduled"}
validStatuses == {"confirmed", "cancelled", "completed", "rescheduled"}
RequestedStatuses == validStatuses \cup {"no-show"}

\* new Date(date): the epoch day of a date string; 0 stands for Invalid Date.
\* Two different strings can denote the same instant.
ParseDate(s) ==
    CASE s = "2024-05-01" -> 19844
      [] s = "2024-05-01T00:00:00.000Z" -> 19844
      [] s = "2024-05-02" -> 19845
      [] s = "2024-05-02T00:00:00.000Z" -> 19845
      [] OTHER -> 0

IsValidDate(d) == d # 0

\* the mode path of the Appointment schema: its enum, and its default for a
\* document created without one
Modes == {"virtual", "in-person"}
DefaultMode(mode) == IF mode = NoValue THEN "virtual" ELSE mode

VARIABLES practitioners, appointments, clinicalNotes, session, req

vars == <<practitioners, appointments, clinicalNotes, session, req>>

\* ------------------------------------------------------------- responses
Idle == [pc |-> "idle"]
Response(op, status, message) ==
    [pc |-> "done", op |-> op, status |-> status, message |-> message]

Ready(r) == req[r].pc \in {"idle", "done"}

NoSession == [state |-> "none"]

\* authorize(requiredRoles): the role check of the route
Authorize(requiredRoles, user) == user.role \in requiredRoles

AccessDenied(op) == Response(op, 403, "Access denied.")

\* ------------------------------------------------------------ Appointment
AppointmentIds == 1 .. MaxAppointments

\* Appointment.findById(id)
AppointmentExists(id) == id \in DOMAIN appointments

\* the query with the status list of the service's conflict check
AvailabilityQuery_NoRescheduled(practitionerId, appointmentDate, timeSlot) ==
    [practitioner |-> practitionerId, date |-> appointmentDate,
     timeSlot |-> timeSlot, status |-> {"pending", "confirmed"}]

\* the query of checkAvailability
AvailabilityQuery(practitionerId, appointmentDate, timeSlot) ==
    [practitioner |-> practitionerId, date |-> appointmentDate,
     timeSlot |-> timeSlot, status |-> {"pending", "confirmed", "rescheduled"}]

\* a document matches the query: equality on three paths, $in on status
Matches(doc, query) ==
    /\ doc.practitioner = query.practitioner
    /\ doc.date = query.date
    /\ doc.timeSlot = query.timeSlot
    /\ doc.status \in query.status

\* Appointment.findOne(query): the first matching _id in store order, 0 for null
RECURSIVE findOneFrom(_, _, _)
findOneFrom(docs, query, i) ==
    IF i > Len(docs) THEN 0
    ELSE IF Matches(docs[i], query) THEN i
    ELSE findOneFrom(docs, query, i + 1)

findOne(docs, query) == findOneFrom(docs, query, 1)

checkAvailability(docs, practitionerId, date, timeSlot) ==
    LET appointmentDate == ParseDate(date)
        existingAppointment ==
            findOne(docs, AvailabilityQuery(practitionerId, appointmentDate, timeSlot))
    IN existingAppointment = 0

\* ------------------------------------------------------------------ Init
\* an empty database and no request in flight; the practitioners are the
\* profiles registered so far
InitWith(registered) ==
    /\ practitioners = registered
    /\ appointments = <<>>
    /\ clinicalNotes = <<>>
    /\ session = [r \in Req |-> NoSession]
    /\ req = [r \in Req |-> Idle]

Init == InitWith(PractitionerIds)

InitBooking == InitWith({"pr1"})

\* ----------------------------------------------------- registerPractitioner
registerPractitioner(p) ==
    /\ p \in PractitionerIds \ practitioners
    /\ practitioners' = practitioners \cup {p}
    /\ UNCHANGED <<appointments, clinicalNotes, session, req>>

\* -------------------------------------------------------- createAppointment
\* line 76: the location handed to Appointment.create
StoredLocation(mode, location) == IF mode = "in-person" THEN location ELSE NoValue

InFlightBookings == Cardinality({q \in Req : req[q].pc \in {"create", "service.create"}})

\* the booking made for the patient the body names
BookingPatient_FromBody(user, body) ==
    IF body.patient # NoValue THEN body.patient ELSE user.profileId

\* which profile the booking is made for
BookingPatient(user, body) == user.profileId

\* lines 42-62: validation, practitioner lookup, availability lookup
createAppointment_checks(user, body) ==
    IF ~Authorize({"patient"}, user)
      THEN AccessDenied("createAppointment")
    ELSE IF \/ body.practitionerId = NoValue \/ body.date = NoValue
            \/ body.timeSlot = NoValue \/ body.reason = NoValue
      THEN Response("createAppointment", 400, "Missing required fields for booking.")
    ELSE IF body.practitionerId \notin practitioners
      THEN Response("createAppointment", 404, "Practitioner not found.")
    ELSE IF ~IsValidDate(ParseDate(body.date))
      THEN Response("createAppointment", 500, "Cast to date failed.")
    ELSE IF ~checkAvailability(appointments, body.practitionerId, body.date, body.timeSlot)
      THEN Response("createAppointment", 409, "The selected time slot is already booked.")
    ELSE [pc |-> "create", op |-> "createAppointment",
          user |-> user, patientId |-> BookingPatient(user, body),
          practitionerId |-> body.practitionerId,
          date |-> body.date, timeSlot |-> body.timeSlot, mode |-> body.mode,
          location |-> body.location]

\* the insert placed before the availability answer
createAppointment_begin_InsertFirst(r, user, body) ==
    /\ Ready(r)
    /\ LET next == createAppointment_checks(user, body) IN
       /\ next.pc = "create" => Len(appointments) + InFlightBookings < MaxAppointments
       /\ req' = [req EXCEPT ![r] = next]
       /\ IF next.pc = "done" /\ next.status = 409 /\ Len(appointments) < MaxAppointments
            THEN appointments' = Append(appointments,
                   [patient |-> user.profileId, practitioner |-> body.practitionerId,
                    date |-> ParseDate(body.date), timeSlot |-> body.timeSlot,
                    mode |-> DefaultMode(body.mode),
                    location |-> StoredLocation(body.mode, body.location),
                    sessionLink |-> NoValue, notes |-> NoValue,
                    status |-> "pending"])
            ELSE UNCHANGED appointments
    /\ UNCHANGED <<practitioners, clinicalNotes, session>>

createAppointment_begin(r, user, body) ==
    /\ Ready(r)
    /\ LET next == createAppointment_checks(user, body) IN
       /\ next.pc = "create" => Len(appointments) + InFlightBookings < MaxAppointments
       /\ req' = [req EXCEPT ![r] = next]
    /\ UNCHANGED <<practitioners, appointments, clinicalNotes, session>>

\* the document created with the status of a confirmation
NewAppointment_Confirmed(l) ==
    [patient |-> l.patientId, practitioner |-> l.practitionerId,
     date |-> ParseDate(l.date), timeSlot |-> l.timeSlot,
     mode |-> DefaultMode(l.mode), location |-> StoredLocation(l.mode, l.location),
     sessionLink |-> NoValue, notes |-> NoValue, status |-> "confirmed"]

\* the document of Appointment.create: no sessionLink and no notes are passed
NewAppointment(l) ==
    [patient |-> l.patientId, practitioner |-> l.practitionerId,
     date |-> ParseDate(l.date), timeSlot |-> l.timeSlot,
     mode |-> DefaultMode(l.mode), location |-> StoredLocation(l.mode, l.location),
     sessionLink |-> NoValue, notes |-> NoValue, status |-> "pending"]

\* lines 64-85: the insert and the 201 response
createAppointment_create(r) ==
    /\ req[r].pc = "create"
    /\ appointments' = Append(appointments, NewAppointment(req[r]))
    /\ req' = [req EXCEPT ![r] =
         Response("createAppointment", 201, "Appointment booked successfully and is pending confirmation.")]
    /\ UNCHANGED <<practitioners, clinicalNotes, session>>

\* ------------------------------------------------------------- transactions
\* the requests whose open transaction holds an uncommitted write to appointment a
PendingAppointmentWriters(a) ==
    {q \in Req : session[q].state = "active" /\ session[q].appointment = a
                 /\ "appointment" \in session[q].writes}

\* the requests whose open transaction holds an uncommitted note for appointment a
PendingNoteWriters(a) ==
    {q \in Req : session[q].state = "active" /\ session[q].appointment = a
                 /\ "note" \in session[q].writes}

\* a committed write to appointment a by r: every other open transaction on
\* that document has an older snapshot and will conflict when it writes it
AppointmentWritten(a, r) ==
    [q \in Req |->
       IF q # r /\ session[q].state = "active" /\ session[q].appointment = a
         THEN [session[q] EXCEPT !.stale = TRUE]
         ELSE session[q]]

\* -------------------------------------------------- updateAppointmentStatus
\* line 158: the sessionLink of the update document, the body's on a
\* confirmation and otherwise the one of the appointment as it was read
SessionLinkUpdate(body, appointment) ==
    IF body.status = "confirmed" THEN body.sessionLink ELSE appointment.sessionLink

\* line 159: the notes of the update document, the body's when it has some
\* and otherwise those of the appointment as it was read
NotesUpdate(body, appointment) ==
    IF body.notes # NoValue THEN body.notes ELSE appointment.notes

\* what an update document's sessionLink leaves in the stored document: a
\* string is stored; undefined is dropped from the update (the stored value
\* stays) or cast to null (the stored value goes), by the Mongoose version
StoredSessionLink(update, stored) ==
    IF update = NoValue THEN {stored, NoValue} ELSE {update}

\* the same for the notes of an update document
StoredNotes(update, stored) ==
    IF update = NoValue THEN {stored, NoValue} ELSE {update}

\* lines 136-152: status validation, lookup, authorization
updateAppointmentStatus_checks(user, appointmentId, body) ==
    IF ~Authorize({"practitioner", "admin"}, user)
      THEN AccessDenied("updateAppointmentStatus")
    ELSE IF body.status \notin validStatuses
      THEN Response("updateAppointmentStatus", 400, "Invalid status provided.")
    ELSE IF ~AppointmentExists(appointmentId)
      THEN Response("updateAppointmentStatus", 404, "Appointment not found.")
    ELSE IF /\ user.role = "practitioner"
            /\ appointments[appointmentId].practitioner # user.profileId
      THEN Response("updateAppointmentStatus", 400, "Unauthorized to modify this appointment.")
    ELSE [pc |-> "findByIdAndUpdate", op |-> "updateAppointmentStatus",
          appointmentId |-> appointmentId, status |-> body.status,
          sessionLink |-> SessionLinkUpdate(body, appointments[appointmentId]),
          notes |-> NotesUpdate(body, appointments[appointmentId])]

updateAppointmentStatus_begin(r, user, appointmentId, body) ==
    /\ Ready(r)
    /\ req' = [req EXCEPT ![r] = updateAppointmentStatus_checks(user, appointmentId, body)]
    /\ UNCHANGED <<practitioners, appointments, clinicalNotes, session>>

\* the update as a removal of the document when the target is cancelled
updateAppointmentStatus_update_DeleteCancelled(r) ==
    /\ req[r].pc = "findByIdAndUpdate"
    /\ LET l == req[r] IN
       /\ PendingAppointmentWriters(l.appointmentId) = {}
       /\ appointments' =
            IF l.status = "cancelled"
              THEN [k \in 1 .. Len(appointments) - 1 |->
                      IF k < l.appointmentId THEN appointments[k] ELSE appointments[k + 1]]
              ELSE [appointments EXCEPT ![l.appointmentId].status = l.status]
       /\ session' = AppointmentWritten(l.appointmentId, r)
       /\ req' = [req EXCEPT ![r] =
            Response("updateAppointmentStatus", 200, "Appointment status updated.")]
    /\ UNCHANGED <<practitioners, clinicalNotes>>

\* lines 154-168: Appointment.findByIdAndUpdate; a write outside any
\* transaction waits for an open transaction that has written the document
updateAppointmentStatus_update(r) ==
    /\ req[r].pc = "findByIdAndUpdate"
    /\ LET l == req[r] IN
       /\ PendingAppointmentWriters(l.appointmentId) = {}
       /\ \E link \in StoredSessionLink(l.sessionLink, appointments[l.appointmentId].sessionLink),
             notes \in StoredNotes(l.notes, appointments[l.appointmentId].notes) :
            appointments' = [appointments EXCEPT ![l.appointmentId].status = l.status,
                                                 ![l.appointmentId].sessionLink = link,
                                                 ![l.appointmentId].notes = notes]
       /\ session' = AppointmentWritten(l.appointmentId, r)
       /\ req' = [req EXCEPT ![r] =
            Response("updateAppointmentStatus", 200, "Appointment status updated.")]
    /\ UNCHANGED <<practitioners, clinicalNotes>>

UpdateStatusBodies ==
    [status : RequestedStatuses, sessionLink : {NoValue}, notes : {NoValue}]

\* the request as the handler holds it while it serves it: req.user,
\* req.params.id and req.body stay with the request up to its write
Received(next, user, appointmentId, body) ==
    ("call" :> [user |-> user, id |-> appointmentId, body |-> body]) @@ next

updateAppointmentStatus_received(r, user, appointmentId, body) ==
    /\ Ready(r)
    /\ req' = [req EXCEPT ![r] =
         Received(updateAppointmentStatus_checks(user, appointmentId, body),
                  user, appointmentId, body)]
    /\ UNCHANGED <<practitioners, appointments, clinicalNotes, session>>

\* ------------------------------------- appointment.service: updateAppointmentStatus
\* the outcomes of a service function: a returned document, or an Error thrown
\* to its caller, which the error handler answers with 500
Returned(op) == Response(op, 200, "returned")
Thrown(op, message) == Response(op, 500, message)

\* the statuses the service's own check lets through
serviceStatuses == {"confirmed", "completed", "cancelled", "no-show"}

\* runValidators: the enum of the schema's status path, applied to the
\* status of the update
StatusValidates_Off(status) == status \in Statuses \cup serviceStatuses
StatusValidates(status) == status \in Statuses

\* service lines 108-115: the check of the status and the lookup
service_updateAppointmentStatus_checks(appointmentId, newStatus) ==
    IF newStatus \notin serviceStatuses
      THEN Thrown("service.updateAppointmentStatus", "Invalid status provided.")
    ELSE IF ~AppointmentExists(appointmentId)
      THEN Thrown("service.updateAppointmentStatus", "Appointment not found.")
    ELSE [pc |-> "service.findByIdAndUpdate", op |-> "service.updateAppointmentStatus",
          appointmentId |-> appointmentId, status |-> newStatus]

service_updateAppointmentStatus_begin(r, appointmentId, newStatus) ==
    /\ Ready(r)
    /\ req' = [req EXCEPT ![r] =
         Received(service_updateAppointmentStatus_checks(appointmentId, newStatus),
                  NoValue, appointmentId, [status |-> newStatus])]
    /\ UNCHANGED <<practitioners, appointments, clinicalNotes, session>>

\* service lines 117-134: findByIdAndUpdate with $set and runValidators.  The
\* schema has no cancellationReason, cancellationDate or completionDate path,
\* so of the $set only the status is stored; a status outside the enum fails
\* the validation and nothing is written
service_updateAppointmentStatus_update(r) ==
    /\ req[r].pc = "service.findByIdAndUpdate"
    /\ LET l == req[r] IN
       IF StatusValidates(l.status)
         THEN /\ PendingAppointmentWriters(l.appointmentId) = {}
              /\ appointments' = [appointments EXCEPT ![l.appointmentId].status = l.status]
              /\ session' = AppointmentWritten(l.appointmentId, r)
              /\ req' = [req EXCEPT ![r] =
                   Received(Returned("service.updateAppointmentStatus"),
                            l.call.user, l.call.id, l.call.body)]
         ELSE /\ req' = [req EXCEPT ![r] =
                   Received(Thrown("service.updateAppointmentStatus", "Validation failed"),
                            l.call.user, l.call.id, l.call.body)]
              /\ UNCHANGED <<appointments, session>>
    /\ UNCHANGED <<practitioners, clinicalNotes>>

\* ---------------------------- appointment.service: scheduleAppointment
\* the patient profiles of the database
PatientIds == {"pa1", "pa2"}

\* service lines 18-22 and 26: the stored date lies between the start and the
\* end of the local day of the date asked for.  Stored dates are whole days
\* of UTC, one day apart, and the range is a day long and holds the date
\* asked for, so it holds a stored date exactly when the two are equal
InDay(stored, date) == stored = date

\* service lines 25-33: the base query, with the id to exclude (0 for none)
ConflictMatches(doc, i, date, timeSlot, excludeAppointmentId) ==
    /\ InDay(doc.date, date)
    /\ doc.timeSlot = timeSlot
    /\ doc.status \in {"pending", "confirmed"}
    /\ excludeAppointmentId # 0 => i # excludeAppointmentId

\* service lines 17-56: TRUE when the practitioner or the patient has an
\* appointment matching the base query
checkForConflicts(docs, practitionerId, patientId, date, timeSlot, excludeAppointmentId) ==
    LET practitionerConflict ==
            \E i \in DOMAIN docs :
                /\ ConflictMatches(docs[i], i, ParseDate(date), timeSlot, excludeAppointmentId)
                /\ docs[i].practitioner = practitionerId
        patientConflict ==
            \E i \in DOMAIN docs :
                /\ ConflictMatches(docs[i], i, ParseDate(date), timeSlot, excludeAppointmentId)
                /\ docs[i].patient = patientId
    IN practitionerConflict \/ patientConflict

\* service lines 65-86: the profile lookups and the conflict check
scheduleAppointment_checks(appointmentData) ==
    IF \/ appointmentData.patient \notin PatientIds
       \/ appointmentData.practitioner \notin practitioners
      THEN Thrown("service.scheduleAppointment", "Patient or Practitioner profile not found.")
    ELSE IF ~IsValidDate(ParseDate(appointmentData.date))
      THEN Thrown("service.scheduleAppointment", "Cast to date failed.")
    ELSE IF checkForConflicts(appointments, appointmentData.practitioner,
                              appointmentData.patient, appointmentData.date,
                              appointmentData.timeSlot, 0)
      THEN Thrown("service.scheduleAppointment", "The requested time slot is unavailable.")
    ELSE [pc |-> "service.create", op |-> "service.scheduleAppointment",
          appointmentData |-> appointmentData]

scheduleAppointment_begin(r, appointmentData) ==
    /\ Ready(r)
    /\ LET next == scheduleAppointment_checks(appointmentData) IN
       /\ next.pc = "service.create" => Len(appointments) + InFlightBookings < MaxAppointments
       /\ req' = [req EXCEPT ![r] = next]
    /\ UNCHANGED <<practitioners, appointments, clinicalNotes, session>>

\* service lines 89-96: Appointment.create of the data with status pending;
\* bookedBy is no path of the schema and is not stored
scheduleAppointment_create(r) ==
    /\ req[r].pc = "service.create"
    /\ LET data == req[r].appointmentData IN
       appointments' = Append(appointments,
         [patient |-> data.patient, practitioner |-> data.practitioner,
          date |-> ParseDate(data.date), timeSlot |-> data.timeSlot,
          mode |-> DefaultMode(data.mode), location |-> data.location,
          sessionLink |-> NoValue, notes |-> NoValue, status |-> "pending"])
    /\ req' = [req EXCEPT ![r] = Returned("service.scheduleAppointment")]
    /\ UNCHANGED <<practitioners, clinicalNotes, session>>

\* -------------------------------------------------------- createClinicalNote
\* notes looked up by a path the documents do not have
NotesOf_WrongPath(notes, a) ==
    {i \in DOMAIN notes : "appointmentId" \in DOMAIN notes[i] /\ notes[i].appointmentId = a}

\* ClinicalNote.findOne({ appointment: appointmentId }), and the key of the
\* unique index on ClinicalNote.appointment: the notes that reference a
NotesOf(notes, a) == {i \in DOMAIN notes : notes[i].appointment = a}

StartedSession(a) ==
    [state |-> "active", appointment |-> a, stale |-> FALSE, writes |-> {}]

\* the checks without the lookup of an existing note
createClinicalNote_checks_NoDuplicateCheck(user, body, resolved) ==
    IF ~Authorize({"practitioner"}, user)
      THEN AccessDenied("createClinicalNote")
    ELSE IF ~resolved
      THEN Response("createClinicalNote", 0, "ReferenceError: mongoose is not defined")
    ELSE IF ~AppointmentExists(body.appointmentId)
      THEN Response("createClinicalNote", 404, "Appointment not found.")
    ELSE IF appointments[body.appointmentId].practitioner # user.profileId
      THEN Response("createClinicalNote", 403, "Unauthorized: Note must be created by the assigned practitioner.")
    ELSE [pc |-> "ClinicalNote.create", op |-> "createClinicalNote",
          practitionerId |-> user.profileId, appointmentId |-> body.appointmentId,
          patient |-> appointments[body.appointmentId].patient,
          complete |-> body.complete]

\* the checks without the comparison of the caller with the assigned practitioner
createClinicalNote_checks_AnyPractitioner(user, body, resolved) ==
    IF ~Authorize({"practitioner"}, user)
      THEN AccessDenied("createClinicalNote")
    ELSE IF ~resolved
      THEN Response("createClinicalNote", 0, "ReferenceError: mongoose is not defined")
    ELSE IF ~AppointmentExists(body.appointmentId)
      THEN Response("createClinicalNote", 404, "Appointment not found.")
    ELSE IF NotesOf(clinicalNotes, body.appointmentId) # {}
      THEN Response("createClinicalNote", 409, "A clinical note already exists for this appointment.")
    ELSE [pc |-> "ClinicalNote.create", op |-> "createClinicalNote",
          practitionerId |-> user.profileId, appointmentId |-> body.appointmentId,
          patient |-> appointments[body.appointmentId].patient,
          complete |-> body.complete]

\* lines 15-49.  The file binds no name mongoose: line 15 throws a
\* ReferenceError before anything else happens unless the process provides
\* the name as a global (resolved).  The lookups read the transaction's
\* snapshot; a transaction aborted before it wrote leaves nothing behind.
createClinicalNote_checks(user, body, resolved) ==
    IF ~Authorize({"practitioner"}, user)
      THEN AccessDenied("createClinicalNote")
    ELSE IF ~resolved
      THEN Response("createClinicalNote", 0, "ReferenceError: mongoose is not defined")
    ELSE IF ~AppointmentExists(body.appointmentId)
      THEN Response("createClinicalNote", 404, "Appointment not found.")
    ELSE IF appointments[body.appointmentId].practitioner # user.profileId
      THEN Response("createClinicalNote", 403, "Unauthorized: Note must be created by the assigned practitioner.")
    ELSE IF NotesOf(clinicalNotes, body.appointmentId) # {}
      THEN Response("createClinicalNote", 409, "A clinical note already exists for this appointment.")
    ELSE [pc |-> "ClinicalNote.create", op |-> "createClinicalNote",
          practitionerId |-> user.profileId, appointmentId |-> body.appointmentId,
          patient |-> appointments[body.appointmentId].patient,
          complete |-> body.complete]

createClinicalNote_begin(r, user, body, resolved) ==
    /\ Ready(r)
    /\ LET next == createClinicalNote_checks(user, body, resolved) IN
       /\ req' = [req EXCEPT ![r] = next]
       /\ session' = [session EXCEPT ![r] =
            IF next.pc = "done" THEN NoSession ELSE StartedSession(body.appointmentId)]
    /\ UNCHANGED <<practitioners, appointments, clinicalNotes>>

ServerError == Response("createClinicalNote", 500, "Server error creating clinical note.")

\* the insert fails validation when a narrative field is absent, and fails on
\* the unique index when a note for the appointment was committed after the
\* snapshot or is held uncommitted by another transaction
NoteInsertFails(r) ==
    LET l == req[r] IN
    \/ ~l.complete
    \/ NotesOf(clinicalNotes, l.appointmentId) # {}
    \/ PendingNoteWriters(l.appointmentId) \ {r} # {}

\* signedDate has no default: a note that was never signed has none
NoDate == 0

NewNote(l) ==
    [appointment |-> l.appointmentId, patient |-> l.patient, practitioner |-> l.practitionerId,
     isSigned |-> FALSE, signedDate |-> NoDate]

\* the insert made without the session: visible at once, outside the transaction
createClinicalNote_create_NoSession(r) ==
    /\ req[r].pc = "ClinicalNote.create"
    /\ IF NoteInsertFails(r)
         THEN /\ req' = [req EXCEPT ![r] = ServerError]
              /\ session' = [session EXCEPT ![r] = NoSession]
              /\ UNCHANGED clinicalNotes
         ELSE /\ req' = [req EXCEPT ![r].pc = "Appointment.updateOne"]
              /\ clinicalNotes' = Append(clinicalNotes, NewNote(req[r]))
              /\ UNCHANGED session
    /\ UNCHANGED <<practitioners, appointments>>

\* lines 51-61: ClinicalNote.create([...], { session }); an operation that
\* fails inside a transaction aborts it, the catch block answers 500
createClinicalNote_create(r) ==
    /\ req[r].pc = "ClinicalNote.create"
    /\ IF NoteInsertFails(r)
         THEN /\ req' = [req EXCEPT ![r] = ServerError]
              /\ session' = [session EXCEPT ![r] = NoSession]
         ELSE /\ req' = [req EXCEPT ![r].pc = "Appointment.updateOne"]
              /\ session' = [session EXCEPT ![r].writes = @ \cup {"note"}]
    /\ UNCHANGED <<practitioners, appointments, clinicalNotes>>

\* the update conflicts when the appointment was written after the snapshot
\* or is held uncommitted by another transaction
AppointmentUpdateFails(r) ==
    \/ session[r].stale
    \/ PendingAppointmentWriters(req[r].appointmentId) \ {r} # {}

\* lines 63-68: Appointment.updateOne(..., { session })
createClinicalNote_updateOne(r) ==
    /\ req[r].pc = "Appointment.updateOne"
    /\ IF AppointmentUpdateFails(r)
         THEN /\ req' = [req EXCEPT ![r] = ServerError]
              /\ session' = [session EXCEPT ![r] = NoSession]
         ELSE /\ req' = [req EXCEPT ![r].pc = "commitTransaction"]
              /\ session' = [session EXCEPT ![r].writes = @ \cup {"appointment"}]
    /\ UNCHANGED <<practitioners, appointments, clinicalNotes>>


\* lines 70-76: commitTransaction makes both writes visible at once
createClinicalNote_commit(r) ==
    /\ req[r].pc = "commitTransaction"
    /\ LET l == req[r] IN
       /\ clinicalNotes' = Append(clinicalNotes, NewNote(l))
       /\ appointments' = [appointments EXCEPT ![l.appointmentId].status = "completed"]
       /\ session' = [AppointmentWritten(l.appointmentId, r) EXCEPT ![r] = NoSession]
       /\ req' = [req EXCEPT ![r] =
            Response("createClinicalNote", 201, "Clinical note created successfully.")]
    /\ UNCHANGED practitioners

\* lines 70 and 77-83: commitTransaction rejects (the transaction has expired
\* on the server, or the connection to it is lost).  The session has then
\* been through commitTransaction, so the abortTransaction of the catch block
\* throws in its turn: line 80 is not reached and no response is sent, the
\* finally block ends the session, and the rejection of the handler, which
\* nothing catches, reaches the unhandledRejection handler of server.js.
\* Whether the writes were applied is the server's: both or none
createClinicalNote_commitFails(r) ==
    /\ req[r].pc = "commitTransaction"
    /\ LET l == req[r] IN
       /\ \E applied \in BOOLEAN :
            IF applied
              THEN /\ clinicalNotes' = Append(clinicalNotes, NewNote(l))
                   /\ appointments' =
                        [appointments EXCEPT ![l.appointmentId].status = "completed"]
                   /\ session' = [AppointmentWritten(l.appointmentId, r) EXCEPT ![r] = NoSession]
              ELSE /\ UNCHANGED <<clinicalNotes, appointments>>
                   /\ session' = [session EXCEPT ![r] = NoSession]
       /\ req' = [req EXCEPT ![r] =
            Response("createClinicalNote", 0,
                     "MongoTransactionError: Cannot call abortTransaction after calling commitTransaction")]
    /\ UNCHANGED practitioners

ClinicalNoteBodies == [appointmentId : AppointmentIds, complete : BOOLEAN]

\* ---------------------------------------------------------- signClinicalNote
NoteIds == 1 .. MaxAppointments

\* Date.now() at a write: an instant not before one already stored
Times(stored) == {t \in 1 .. MaxTime : t >= stored}

\* the checks without the test of isSigned
signClinicalNote_checks_NoSignedCheck(user, noteId) ==
    IF ~Authorize({"practitioner"}, user)
      THEN AccessDenied("signClinicalNote")
    ELSE IF noteId \notin DOMAIN clinicalNotes
      THEN Response("signClinicalNote", 404, "Clinical note not found.")
    ELSE IF clinicalNotes[noteId].practitioner # user.profileId
      THEN Response("signClinicalNote", 403, "Unauthorized: Only the originating practitioner can sign the note.")
    ELSE [pc |-> "ClinicalNote.findByIdAndUpdate", op |-> "signClinicalNote", noteId |-> noteId]

\* lines 138-154: lookup of the note, creator check, isSigned check
signClinicalNote_checks(user, noteId) ==
    IF ~Authorize({"practitioner"}, user)
      THEN AccessDenied("signClinicalNote")
    ELSE IF noteId \notin DOMAIN clinicalNotes
      THEN Response("signClinicalNote", 404, "Clinical note not found.")
    ELSE IF clinicalNotes[noteId].practitioner # user.profileId
      THEN Response("signClinicalNote", 403, "Unauthorized: Only the originating practitioner can sign the note.")
    ELSE IF clinicalNotes[noteId].isSigned
      THEN Response("signClinicalNote", 400, "Note is already signed.")
    ELSE [pc |-> "ClinicalNote.findByIdAndUpdate", op |-> "signClinicalNote", noteId |-> noteId]

signClinicalNote_begin(r, user, noteId) ==
    /\ Ready(r)
    /\ req' = [req EXCEPT ![r] =
         Received(signClinicalNote_checks(user, noteId), user, noteId, NoValue)]
    /\ UNCHANGED <<practitioners, appointments, clinicalNotes, session>>

\* lines 156-167: ClinicalNote.findByIdAndUpdate with $set of isSigned and
\* signedDate, whatever the note holds by now
signClinicalNote_update(r) ==
    /\ req[r].pc = "ClinicalNote.findByIdAndUpdate"
    /\ LET noteId == req[r].noteId IN
       \E now \in Times(clinicalNotes[noteId].signedDate) :
          clinicalNotes' = [clinicalNotes EXCEPT ![noteId].isSigned = TRUE,
                                                 ![noteId].signedDate = now]
    /\ req' = [req EXCEPT ![r] =
         Response("signClinicalNote", 200, "Clinical note has been successfully signed and finalized.")]
    /\ UNCHANGED <<practitioners, appointments, session>>

\* ------------------------------------------------------- getClinicalNoteById
\* populate(path, select): the referenced profile document in place of its id
Populated(id) == [_id |-> id]

\* toString() of a document: the text of its inspection, never the hex
\* string of its _id alone
DocumentToString(doc) == "{ _id: new ObjectId('" \o doc._id \o "') }"

\* lines 108-110: the tests of the security check, on the populated note
IsOwner(note, user) == DocumentToString(note.patient) = user.profileId
IsCreator(note, user) == DocumentToString(note.practitioner) = user.profileId
IsAdmin(user) == user.role = "admin"

\* lines 99-101: the note with patient and practitioner populated
PopulatedNote(note) ==
    [note EXCEPT !.patient = Populated(note.patient),
                 !.practitioner = Populated(note.practitioner)]

\* lines 98-119: the whole handler, a read
getClinicalNoteById_answer(user, noteId) ==
    IF noteId \notin DOMAIN clinicalNotes
      THEN Response("getClinicalNoteById", 404, "Clinical note not found.")
    ELSE LET note == PopulatedNote(clinicalNotes[noteId]) IN
      IF ~IsOwner(note, user) /\ ~IsCreator(note, user) /\ ~IsAdmin(user)
        THEN Response("getClinicalNoteById", 403, "Unauthorized to view this clinical note.")
        ELSE ("data" :> note) @@ Response("getClinicalNoteById", 200, "success")

getClinicalNoteById(r, user, noteId) ==
    /\ Ready(r)
    /\ req' = [req EXCEPT ![r] =
         Received(getClinicalNoteById_answer(user, noteId), user, noteId, NoValue)]
    /\ UNCHANGED <<practitioners, appointments, clinicalNotes, session>>

\* --------------------------------------------------------- getMyAppointments
\* the JSON of a stored date, its toISOString()
FormatDate(day) ==
    CASE day = 19844 -> "2024-05-01T00:00:00.000Z"
      [] day = 19845 -> "2024-05-02T00:00:00.000Z"
      [] OTHER -> "null"

\* the place of a timeSlot in the order of strings
SlotRank(timeSlot) == IF timeSlot = "10:00" THEN 1 ELSE 0

\* lines 104-105: a patient's query, on every path but the caller's own
QueryPath_AnyPatient(user) == IF user.role = "patient" THEN "status" ELSE "practitioner"

\* lines 104-109: the path of the query, by the caller's role
QueryPath(user) == IF user.role = "patient" THEN "patient" ELSE "practitioner"

\* Appointment.find(query): the documents whose path holds the caller's profile
Found(docs, user) ==
    {i \in DOMAIN docs :
        QueryPath(user) = "status" \/ docs[i][QueryPath(user)] = user.profileId}

\* sort({ date: -1, timeSlot: 1 }): x is to come before y
Precedes(x, y) ==
    \/ x.date > y.date
    \/ x.date = y.date /\ SlotRank(x.timeSlot) < SlotRank(y.timeSlot)

\* the orders the sort can give to the found documents: documents equal in
\* date and timeSlot come in either order
Sorted(docs, ids) ==
    {s \in [1 .. Cardinality(ids) -> ids] :
        \A j, k \in 1 .. Cardinality(ids) :
            j < k => s[j] # s[k] /\ ~Precedes(docs[s[k]], docs[s[j]])}

\* lines 112-113 and the JSON of the response: a found appointment with its
\* patient and practitioner populated
View(docs, i) ==
    [_id |-> i,
     patient |-> Populated(docs[i].patient),
     practitioner |-> Populated(docs[i].practitioner),
     date |-> FormatDate(docs[i].date), timeSlot |-> docs[i].timeSlot,
     mode |-> docs[i].mode, location |-> docs[i].location,
     sessionLink |-> docs[i].sessionLink, notes |-> docs[i].notes,
     status |-> docs[i].status]

\* the lists the handler can answer to user over the stored documents docs
MyAppointments(docs, user) ==
    {[k \in 1 .. Len(s) |-> View(docs, s[k])] : s \in Sorted(docs, Found(docs, user))}

\* lines 98-122: the whole handler, a read; the route checks no role
getMyAppointments(r, user) ==
    /\ Ready(r)
    /\ IF user.role \in {"patient", "practitioner"}
         THEN \E data \in MyAppointments(appointments, user) :
                req' = [req EXCEPT ![r] =
                  Received(("data" :> data) @@ Response("getMyAppointments", 200, "success"),
                           user, NoValue, NoValue)]
         ELSE req' = [req EXCEPT ![r] =
                  Received(Response("getMyAppointments", 400, "Invalid user role detected."),
                           user, NoValue, NoValue)]
    /\ UNCHANGED <<practitioners, appointments, clinicalNotes, session>>

\* ------------------------------------------------------- request inputs
Without(body, field) == [body EXCEPT ![field] = NoValue]

\* bookings with every field present, and those with one required field absent
Bookings(practitionerIds, dates, timeSlots, bodyPatients) ==
    LET complete == [practitionerId : practitionerIds, date : dates,
                     timeSlot : timeSlots, reason : {"checkup"}, patient : bodyPatients,
                     mode : {NoValue}, location : {NoValue}]
        one == CHOOSE b \in complete : TRUE
    IN complete \cup {Without(one, f) : f \in {"practitionerId", "date", "timeSlot", "reason"}}

Patient(p) == [role |-> "patient", profileId |-> p]
Practitioner(p) == [role |-> "practitioner", profileId |-> p]
Admin == [role |-> "admin", profileId |-> "ad1"]

\* ------------------------------------------------------------------ Next
\* Spec: the three handlers, two requests in flight, one bookable slot
Next ==
    \/ \E r \in Req, body \in Bookings({"pr1"}, {"2024-05-01"}, TimeSlots, {NoValue}) :
         createAppointment_begin(r, Patient("pa1"), body)
    \/ \E r \in Req : createAppointment_create(r)
    \/ \E r \in Req, user \in {Practitioner("pr1"), Practitioner("pr2"), Admin},
          id \in AppointmentIds, body \in UpdateStatusBodies :
         updateAppointmentStatus_begin(r, user, id, body)
    \/ \E r \in Req : updateAppointmentStatus_update(r)
    \/ \E r \in Req, user \in {Practitioner("pr1"), Practitioner("pr2")},
          body \in ClinicalNoteBodies, resolved \in BOOLEAN :
         createClinicalNote_begin(r, user, body, resolved)
    \/ \E r \in Req : createClinicalNote_create(r)
    \/ \E r \in Req : createClinicalNote_updateOne(r)
    \/ \E r \in Req : createClinicalNote_commit(r)

Spec == Init /\ [][Next]_vars

\* SpecBooking: the booking inputs in full (unknown practitioner, dates that
\* parse to the same instant, to another one or to none, a patient named in
\* the body), requests one at a time.  A caller whose role the route refuses
\* is refused whatever the body is, and calls with fewer bodies
NextBooking ==
    \/ \E p \in PractitionerIds : registerPractitioner(p)
    \/ \E body \in Bookings(PractitionerIds, DateStrings, TimeSlots, {"pa2"}) :
         createAppointment_begin("r1", Patient("pa1"), body)
    \/ \E body \in Bookings({"pr1"}, {"2024-05-01"}, TimeSlots, {NoValue}) :
         createAppointment_begin("r1", Practitioner("pr1"), body)
    \/ createAppointment_create("r1")
    \/ \E user \in {Practitioner("pr1"), Admin},
          id \in AppointmentIds, body \in UpdateStatusBodies :
         updateAppointmentStatus_begin("r1", user, id, body)
    \/ \E body \in [status : {"cancelled"}, sessionLink : {NoValue}, notes : {NoValue}] :
         updateAppointmentStatus_begin("r1", Patient("pa1"), 1, body)
    \/ updateAppointmentStatus_update("r1")
    \/ \E body \in Bookings({"pr1"}, {"2024-05-01"}, TimeSlots, {NoValue}) :
         createAppointment_begin("r2", Patient("pa1"), body)
    \/ createAppointment_create("r2")

SpecBooking == InitBooking /\ [][NextBooking]_vars

\* SpecNotes: the clinical-note transaction against concurrent status updates
\* and concurrent notes, on at most MaxNoted booked appointments
NextNotes ==
    \/ \E r \in Req, body \in Bookings({"pr1"}, {"2024-05-01"}, TimeSlots, {NoValue}) :
         /\ Len(appointments) + InFlightBookings < MaxNoted
         /\ createAppointment_begin(r, Patient("pa1"), body)
    \/ \E r \in Req : createAppointment_create(r)
    \/ \E r \in Req, user \in {Practitioner("pr1"), Practitioner("pr2"), Admin},
          id \in AppointmentIds, body \in UpdateStatusBodies :
         updateAppointmentStatus_begin(r, user, id, body)
    \/ \E r \in Req : updateAppointmentStatus_update(r)
    \/ \E r \in Req, user \in {Practitioner("pr1"), Practitioner("pr2")},
          body \in ClinicalNoteBodies, resolved \in BOOLEAN :
         createClinicalNote_begin(r, user, body, resolved)
    \/ \E r \in Req : createClinicalNote_create(r)
    \/ \E r \in Req : createClinicalNote_updateOne(r)
    \/ \E r \in Req : createClinicalNote_commit(r)

SpecNotes == Init /\ [][NextNotes]_vars

\* SpecStatus: the status update with its request in view.  Two bookable
\* days, one booked virtual and one in person; r1 serves the status updates
\* of every kind of caller and the clinical notes, r2 the bookings
SessionLinks == {"https://meet.example/1"}

StatusBookings ==
    {[practitionerId |-> "pr1", date |-> "2024-05-01", timeSlot |-> "10:00",
      reason |-> "checkup", patient |-> NoValue, mode |-> NoValue,
      location |-> NoValue],
     [practitionerId |-> "pr1", date |-> "2024-05-02", timeSlot |-> "10:00",
      reason |-> "checkup", patient |-> NoValue, mode |-> "in-person",
      location |-> NoValue]}

\* bodies of PUT /:id/status: a status, with or without a sessionLink, and
\* for a reschedule with or without the date and timeSlot asked for
StatusRequests ==
    [status : {"confirmed"}, sessionLink : SessionLinks \cup {NoValue},
     notes : {NoValue}, date : {NoValue}, timeSlot : {NoValue}]
    \cup [status : {"cancelled", "completed", "rescheduled", "no-show"},
          sessionLink : {NoValue}, notes : {NoValue},
          date : {NoValue}, timeSlot : {NoValue}]
    \cup [status : {"rescheduled"}, sessionLink : {NoValue}, notes : {NoValue},
          date : {"2024-05-02"}, timeSlot : TimeSlots]

StatusCallers ==
    {Practitioner("pr1"), Practitioner("pr2"), Admin, Patient("pa1"), Patient("pa2")}

NextStatus ==
    \/ \E body \in StatusBookings : createAppointment_begin("r2", Patient("pa1"), body)
    \/ createAppointment_create("r2")
    \/ \E user \in StatusCallers, id \in AppointmentIds, body \in StatusRequests :
         updateAppointmentStatus_received("r1", user, id, body)
    \/ updateAppointmentStatus_update("r1")
    \/ \E user \in {Practitioner("pr1"), Practitioner("pr2")},
          body \in ClinicalNoteBodies, resolved \in BOOLEAN :
         createClinicalNote_begin("r1", user, body, resolved)
    \/ createClinicalNote_create("r1")
    \/ createClinicalNote_updateOne("r1")
    \/ createClinicalNote_commit("r1")

SpecStatus == Init /\ [][NextStatus]_vars

\* SpecLinked: notes on the appointments of two patients with two
\* practitioners; r2 serves the bookings, r1 the clinical notes
NextLinked ==
    \/ \E p \in {"pa1", "pa2"},
          body \in Bookings(PractitionerIds, {"2024-05-01"}, TimeSlots, {NoValue}) :
         createAppointment_begin("r2", Patient(p), body)
    \/ createAppointment_create("r2")
    \/ \E user \in {Practitioner("pr1"), Practitioner("pr2")},
          body \in ClinicalNoteBodies, resolved \in BOOLEAN :
         createClinicalNote_begin("r1", user, body, resolved)
    \/ createClinicalNote_create("r1")
    \/ createClinicalNote_updateOne("r1")
    \/ createClinicalNote_commit("r1")

SpecLinked == Init /\ [][NextLinked]_vars

\* SpecSign: signing the notes of at most MaxNoted appointments; r1 serves
\* the booking, the note and signatures, r2 signatures
NextSign ==
    \/ \E body \in Bookings({"pr1"}, {"2024-05-01"}, TimeSlots, {NoValue}) :
         /\ Len(appointments) + InFlightBookings < MaxNoted
         /\ createAppointment_begin("r1", Patient("pa1"), body)
    \/ createAppointment_create("r1")
    \/ \E body \in ClinicalNoteBodies, resolved \in BOOLEAN :
         createClinicalNote_begin("r1", Practitioner("pr1"), body, resolved)
    \/ createClinicalNote_create("r1")
    \/ createClinicalNote_updateOne("r1")
    \/ createClinicalNote_commit("r1")
    \/ \E r \in Req, user \in {Practitioner("pr1"), Practitioner("pr2"), Patient("pa1")},
          noteId \in NoteIds :
         signClinicalNote_begin(r, user, noteId)
    \/ \E r \in Req : signClinicalNote_update(r)

SpecSign == Init /\ [][NextSign]_vars

\* SpecView: reading the note of one appointment; r1 serves the booking and
\* the note, r2 the readers
NextView ==
    \/ \E body \in Bookings({"pr1"}, {"2024-05-01"}, TimeSlots, {NoValue}) :
         /\ Len(appointments) + InFlightBookings < MaxNoted
         /\ createAppointment_begin("r1", Patient("pa1"), body)
    \/ createAppointment_create("r1")
    \/ \E body \in ClinicalNoteBodies, resolved \in BOOLEAN :
         createClinicalNote_begin("r1", Practitioner("pr1"), body, resolved)
    \/ createClinicalNote_create("r1")
    \/ createClinicalNote_updateOne("r1")
    \/ createClinicalNote_commit("r1")
    \/ \E user \in {Patient("pa1"), Patient("pa2"), Practitioner("pr1"),
                     Practitioner("pr2"), Admin},
          noteId \in NoteIds :
         getClinicalNoteById("r2", user, noteId)

SpecView == Init /\ [][NextView]_vars

\* SpecRead: the list of one's appointments while others book and cancel;
\* r1 serves the readers, r2 the bookings and the cancellations
ReadBookings ==
    {b \in Bookings(PractitionerIds, {"2024-05-01", "2024-05-02"}, TimeSlots, {NoValue}) :
        b.practitionerId = "pr2" => b.date = "2024-05-01"}

ReadCallers == {Patient("pa1"), Practitioner("pr1"), Admin}

NextRead ==
    \/ \E user \in {Patient("pa1"), Patient("pa2")}, body \in ReadBookings :
         /\ Len(appointments) + InFlightBookings < MaxAppointments
         /\ createAppointment_begin("r2", user, body)
    \/ createAppointment_create("r2")
    \/ \E appointmentId \in 1 .. MaxAppointments,
          body \in [status : {"cancelled"}, sessionLink : {NoValue}, notes : {NoValue}] :
         updateAppointmentStatus_received("r2", Admin, appointmentId, body)
    \/ updateAppointmentStatus_update("r2")
    \/ \E user \in ReadCallers : getMyAppointments("r1", user)

SpecRead == Init /\ [][NextRead]_vars

\* SpecRace: two status updates of one practitioner in flight at once; r1
\* also serves the bookings
RaceLinks == {"https://meet.example/1", "https://meet.example/2"}

RaceRequests ==
    [status : {"confirmed"}, sessionLink : RaceLinks, notes : {NoValue}]
    \cup [status : {"cancelled"}, sessionLink : {NoValue}, notes : {NoValue}]

NextRace ==
    \/ \E body \in Bookings({"pr1"}, {"2024-05-01", "2024-05-02"}, TimeSlots, {NoValue}) :
         /\ Len(appointments) + InFlightBookings < MaxAppointments
         /\ createAppointment_begin("r1", Patient("pa1"), body)
    \/ createAppointment_create("r1")
    \/ \E r \in Req, id \in AppointmentIds, body \in RaceRequests :
         updateAppointmentStatus_received(r, Practitioner("pr1"), id, body)
    \/ \E r \in Req : updateAppointmentStatus_update(r)

SpecRace == Init /\ [][NextRace]_vars

\* SpecService: the status of the stored appointments under the service's
\* update and the controller's; r1 also serves the bookings
ServiceRequestedStatuses == serviceStatuses \cup {"rescheduled"}

NextService ==
    \/ \E body \in Bookings({"pr1"}, {"2024-05-01"}, TimeSlots, {NoValue}) :
         /\ Len(appointments) + InFlightBookings < MaxNoted
         /\ createAppointment_begin("r1", Patient("pa1"), body)
    \/ createAppointment_create("r1")
    \/ \E r \in Req, id \in AppointmentIds, newStatus \in ServiceRequestedStatuses :
         service_updateAppointmentStatus_begin(r, id, newStatus)
    \/ \E r \in Req : service_updateAppointmentStatus_update(r)
    \/ \E id \in AppointmentIds,
          body \in [status : {"rescheduled", "no-show"}, sessionLink : {NoValue},
                    notes : {NoValue}] :
         updateAppointmentStatus_received("r2", Admin, id, body)
    \/ updateAppointmentStatus_update("r2")

SpecService == Init /\ [][NextService]_vars

\* SpecSchedule: the two booking paths side by side; r1 serves the
\* controller's bookings and an admin's reschedules, r2 the service's
ScheduleData ==
    [patient : PatientIds, practitioner : PractitionerIds, date : {"2024-05-01"},
     timeSlot : TimeSlots, reason : {"checkup"}, mode : {NoValue}, location : {NoValue}]

NextSchedule ==
    \/ \E p \in PatientIds,
          body \in Bookings(PractitionerIds, {"2024-05-01"}, TimeSlots, {NoValue}) :
         createAppointment_begin("r1", Patient(p), body)
    \/ createAppointment_create("r1")
    \/ \E id \in AppointmentIds,
          body \in [status : {"rescheduled", "cancelled"}, sessionLink : {NoValue},
                    notes : {NoValue}] :
         updateAppointmentStatus_received("r1", Admin, id, body)
    \/ updateAppointmentStatus_update("r1")
    \/ \E appointmentData \in ScheduleData : scheduleAppointment_begin("r2", appointmentData)
    \/ scheduleAppointment_create("r2")

SpecSchedule == Init /\ [][NextSchedule]_vars

\* SpecSession: the transaction of createClinicalNote with a commit that can
\* fail; r1 also serves the booking
NextSession ==
    \/ \E body \in Bookings({"pr1"}, {"2024-05-01"}, TimeSlots, {NoValue}) :
         /\ Len(appointments) + InFlightBookings < MaxNoted
         /\ createAppointment_begin("r1", Patient("pa1"), body)
    \/ createAppointment_create("r1")
    \/ \E r \in Req, user \in {Practitioner("pr1"), Practitioner("pr2")},
          body \in ClinicalNoteBodies, resolved \in BOOLEAN :
         createClinicalNote_begin(r, user, body, resolved)
    \/ \E r \in Req : createClinicalNote_create(r)
    \/ \E r \in Req : createClinicalNote_updateOne(r)
    \/ \E r \in Req : createClinicalNote_commit(r)
    \/ \E r \in Req : createClinicalNote_commitFails(r)

SpecSession == Init /\ [][NextSession]_vars

\* ================================================================ claims
NonTerminal == {"pending", "confirmed", "rescheduled"}
Terminal == {"completed", "cancelled"}

\* request r takes a step of handler op
StepOf(r, op) == req'[r] # req[r] /\ req'[r].op = op

Answered(r, op, status) ==
    req[r].pc = "done" /\ req[r].op = op /\ req[r].status = status

SameSlot(x, y) ==
    x.practitioner = y.practitioner /\ x.date = y.date /\ x.timeSlot = y.timeSlot

\* C1: no two appointments of one practitioner at one date and timeSlot are
\* both pending, confirmed or rescheduled.
C1_NoPractitionerDoubleBooking ==
    \A i, j \in DOMAIN appointments :
        (/\ i # j
         /\ SameSlot(appointments[i], appointments[j])
         /\ appointments[i].status \in NonTerminal)
        => appointments[j].status \notin NonTerminal

\* C2: a booking whose insert comes after a concurrent booking has inserted a
\* pending appointment for the same practitioner, date and timeSlot creates
\* nothing and is answered 409.
C2_ConcurrentBookingConflicts ==
    [][\A r \in Req :
         (/\ req[r].pc = "create"
          /\ StepOf(r, "createAppointment")
          /\ \E i \in DOMAIN appointments :
                /\ appointments[i].status = "pending"
                /\ SameSlot(appointments[i], NewAppointment(req[r])))
         => (req'[r].status = 409 /\ appointments' = appointments)]_vars

C4_AtMostOneNotePerAppointment ==
    \A a \in DOMAIN appointments :
        Cardinality({i \in DOMAIN clinicalNotes : clinicalNotes[i].appointment = a}) <= 1

\* two calls for the same appointment are in their transactions at once, both
\* past the duplicate check
C4_Witness ==
    \E r, q \in Req :
        /\ r # q
        /\ session[r].state = "active" /\ session[q].state = "active"
        /\ session[r].appointment = session[q].appointment

\* C5: the status of a completed or cancelled appointment never changes.
C5_TerminalStatusIsFinal ==
    [][\A i \in DOMAIN appointments :
         appointments[i].status \in Terminal
         => appointments'[i].status = appointments[i].status]_vars

\* C6: no two appointments of one patient at one date and timeSlot are both
\* pending, confirmed or rescheduled.
C6_NoPatientDoubleBooking ==
    \A i, j \in DOMAIN appointments :
        (/\ i # j
         /\ appointments[i].patient = appointments[j].patient
         /\ appointments[i].date = appointments[j].date
         /\ appointments[i].timeSlot = appointments[j].timeSlot
         /\ appointments[i].status \in NonTerminal)
        => appointments[j].status \notin NonTerminal

\* C7: a step of createAppointment that is not answered 201 leaves the
\* appointments exactly as they were.
C7_FailedBookingWritesNothing ==
    [][\A r \in Req :
         (StepOf(r, "createAppointment") /\ ~(req'[r].pc = "done" /\ req'[r].status = 201))
         => appointments' = appointments]_vars

\* a booking has been refused with 409 against a stored appointment
C7_Witness ==
    \E r \in Req :
        /\ Answered(r, "createAppointment", 409)
        /\ \E i \in DOMAIN appointments : appointments[i].status \in NonTerminal

\* C8: a createAppointment step answered 201 appends exactly one appointment:
\* pending, of the caller's own profile, with a practitioner that exists.
C8_BookingIsPendingForCaller ==
    [][\A r \in Req :
         (StepOf(r, "createAppointment") /\ req'[r].pc = "done" /\ req'[r].status = 201)
         => /\ Len(appointments') = Len(appointments) + 1
            /\ SubSeq(appointments', 1, Len(appointments)) = appointments
            /\ LET new == appointments'[Len(appointments')] IN
               /\ new.status = "pending"
               /\ new.patient = req[r].user.profileId
               /\ new.practitioner \in practitioners]_vars

\* a booking has been answered 201 and its appointment is stored for the caller
C8_Witness ==
    \E r \in Req :
        /\ Answered(r, "createAppointment", 201)
        /\ \E i \in DOMAIN appointments :
              appointments[i].patient = "pa1" /\ appointments[i].practitioner = "pr2"

\* C9: checkAvailability is false exactly when a stored appointment has the
\* practitioner, the instant of the date and the timeSlot, and is pending,
\* confirmed or rescheduled.
C9_AvailabilityIsNonTerminalMatch ==
    \A p \in PractitionerIds, d \in DateStrings, t \in TimeSlots :
        IsValidDate(ParseDate(d)) =>
          (~checkAvailability(appointments, p, d, t)
           <=> \E i \in DOMAIN appointments :
                  /\ appointments[i].practitioner = p
                  /\ appointments[i].date = ParseDate(d)
                  /\ appointments[i].timeSlot = t
                  /\ appointments[i].status \in NonTerminal)

\* a slot freed by a cancellation or completion has been booked again
C9_Witness ==
    \E i, j \in DOMAIN appointments :
        /\ i < j
        /\ SameSlot(appointments[i], appointments[j])
        /\ appointments[i].status \in Terminal
        /\ appointments[j].status = "pending"

\* C10: a status update refused because the calling practitioner is not the
\* assigned one is answered 403.
C10_UnassignedPractitionerForbidden ==
    \A r \in Req :
        (/\ req[r].pc = "done"
         /\ req[r].op = "updateAppointmentStatus"
         /\ req[r].message = "Unauthorized to modify this appointment.")
        => req[r].status = 403

\* the caller of the request that slot r is serving
Caller(l) ==
    IF l.op = "createClinicalNote" THEN Practitioner(l.practitionerId) ELSE l.call.user

\* C11: an appointment's status becomes completed only in a step of
\* updateAppointmentStatus or createClinicalNote made for the appointment's
\* assigned practitioner, never for an admin or another practitioner.
C11_CompletedOnlyByAssignedPractitioner ==
    [][\A i \in DOMAIN appointments :
         (appointments[i].status # "completed" /\ appointments'[i].status = "completed")
         => \E r \in Req :
               /\ req'[r] # req[r]
               /\ req[r].pc \in {"findByIdAndUpdate", "commitTransaction"}
               /\ Caller(req[r]) = Practitioner(appointments[i].practitioner)]_vars

\* slot r holds a status update as it was received: refused at once, or
\* waiting for its write
Holds(l) == l.pc # "idle" /\ l.op = "updateAppointmentStatus" /\ "call" \in DOMAIN l

Refused(l) == l.pc = "done" /\ l.status >= 400

Answered403(l) == l.pc = "done" /\ l.status = 403

\* C12: a request to cancel a pending, confirmed or rescheduled appointment
\* that comes from the patient who booked it is not refused.
C12_BookingPatientMayCancel ==
    \A r \in Req :
        (/\ Holds(req[r])
         /\ req[r].call.body.status = "cancelled"
         /\ req[r].call.id \in DOMAIN appointments
         /\ appointments[req[r].call.id].status \in NonTerminal
         /\ req[r].call.user = Patient(appointments[req[r].call.id].patient))
        => ~Refused(req[r])

\* a stored document has a value at a path
Has(doc, path) == path \in DOMAIN doc /\ doc[path] # NoValue

\* C13: every cancelled appointment carries a cancellation date and a
\* cancellation reason, and every completed appointment a completion date.
C13_TerminalStatusIsStamped ==
    \A i \in DOMAIN appointments :
        /\ appointments[i].status = "cancelled"
             => /\ Has(appointments[i], "cancellationDate")
                /\ Has(appointments[i], "cancellationReason")
        /\ appointments[i].status = "completed"
             => Has(appointments[i], "completionDate")

\* C14: the write of a confirmation that carries a sessionLink, on a virtual
\* appointment, leaves the appointment confirmed with that sessionLink; and a
\* step stores a sessionLink only when it leaves the appointment confirmed
\* and the appointment's mode is virtual.
C14_SessionLinkOnVirtualConfirmation ==
    [][/\ \A r \in Req :
            (/\ req[r].pc = "findByIdAndUpdate" /\ req'[r] # req[r]
             /\ req[r].status = "confirmed" /\ req[r].sessionLink # NoValue
             /\ appointments[req[r].appointmentId].mode = "virtual")
            => /\ appointments'[req[r].appointmentId].status = "confirmed"
               /\ appointments'[req[r].appointmentId].sessionLink = req[r].sessionLink
       /\ \A i \in DOMAIN appointments :
            (/\ appointments'[i].sessionLink # appointments[i].sessionLink
             /\ appointments'[i].sessionLink # NoValue)
            => /\ appointments'[i].status = "confirmed"
               /\ appointments[i].mode = "virtual"]_vars

\* the request asks to move its appointment to a date and timeSlot that
\* another pending, confirmed or rescheduled appointment of the same
\* practitioner holds
ReschedulesIntoHeldSlot(c) ==
    /\ c.body.status = "rescheduled"
    /\ c.id \in DOMAIN appointments
    /\ \E j \in DOMAIN appointments :
          /\ j # c.id
          /\ appointments[j].practitioner = appointments[c.id].practitioner
          /\ appointments[j].date = ParseDate(c.body.date)
          /\ appointments[j].timeSlot = c.body.timeSlot
          /\ appointments[j].status \in NonTerminal

\* C15: a reschedule into a slot held by another non-terminal appointment of
\* the same practitioner is refused when it is received, and no appointment
\* changes.
C15_RescheduleIntoHeldSlotRefused ==
    [][\A r \in Req :
         (/\ req'[r] # req[r] /\ Holds(req'[r])
          /\ ReschedulesIntoHeldSlot(req'[r].call))
         => (Refused(req'[r]) /\ appointments' = appointments)]_vars

\* C16: a request for the status rescheduled that names no date and no
\* timeSlot is refused when it is received, and the write that makes an
\* appointment rescheduled changes its date or its timeSlot.
C16_RescheduleMovesTheAppointment ==
    [][\A r \in Req :
         /\ (/\ req'[r] # req[r] /\ Holds(req'[r])
             /\ req'[r].call.body.status = "rescheduled"
             /\ req'[r].call.body.date = NoValue
             /\ req'[r].call.body.timeSlot = NoValue)
            => (Refused(req'[r]) /\ appointments' = appointments)
         /\ (/\ req[r].pc = "findByIdAndUpdate" /\ req'[r] # req[r]
             /\ req[r].status = "rescheduled")
            => \/ appointments'[req[r].appointmentId].date
                    # appointments[req[r].appointmentId].date
               \/ appointments'[req[r].appointmentId].timeSlot
                    # appointments[req[r].appointmentId].timeSlot]_vars

\* C17: a createClinicalNote call answered 404, 403 or 409 leaves every
\* appointment and every note as it was; a call for an appointment that has a
\* note is never admitted to the insert, and the answer 409 is given only
\* when the note exists.
C17_RefusedNoteCallChangesNothing ==
    [][\A r \in Req :
         StepOf(r, "createClinicalNote") =>
           /\ (req'[r].pc = "done" /\ req'[r].status \in {403, 404, 409})
                => UNCHANGED <<appointments, clinicalNotes>>
           /\ (req'[r].pc = "done" /\ req'[r].status = 409)
                => clinicalNotes # <<>>
           /\ (Ready(r) /\ req'[r].pc = "ClinicalNote.create")
                => NotesOf(clinicalNotes, req'[r].appointmentId) = {}]_vars

\* a call has been answered 409 against the note of a completed appointment
C17_Witness ==
    \E r \in Req :
        /\ Answered(r, "createClinicalNote", 409)
        /\ Len(clinicalNotes) = 1
        /\ appointments[clinicalNotes[1].appointment].status = "completed"

\* C20: the practitioner of every clinical note is the practitioner of the
\* appointment it references, and its patient is that appointment's patient.
C20_NoteMatchesItsAppointment ==
    \A n \in DOMAIN clinicalNotes :
        LET a == clinicalNotes[n].appointment IN
        /\ a \in DOMAIN appointments
        /\ clinicalNotes[n].practitioner = appointments[a].practitioner
        /\ clinicalNotes[n].patient = appointments[a].patient

\* notes are stored for the appointments of two patients with two
\* practitioners, and a practitioner other than the assigned one has been
\* refused
C20_Witness ==
    /\ \E n, m \in DOMAIN clinicalNotes :
          /\ clinicalNotes[n].patient # clinicalNotes[m].patient
          /\ clinicalNotes[n].practitioner # clinicalNotes[m].practitioner
    /\ \E r \in Req : Answered(r, "createClinicalNote", 403)

C19_SignedExactlyOnce ==
    [][/\ \A r \in Req :
            (req[r].pc = "ClinicalNote.findByIdAndUpdate" /\ req'[r] # req[r])
            => ~clinicalNotes[req[r].noteId].isSigned
       /\ \A n \in DOMAIN clinicalNotes :
            clinicalNotes[n].isSigned => clinicalNotes'[n] = clinicalNotes[n]]_vars

\* C21: a getClinicalNoteById call on a stored note is answered 200 with the
\* note exactly when the caller is the note's patient, the note's
\* practitioner or an admin, and 403 without data otherwise.
C21_NoteReadableByItsParties ==
    [][\A r \in Req :
         (StepOf(r, "getClinicalNoteById") /\ req'[r].call.id \in DOMAIN clinicalNotes)
         => LET note == clinicalNotes[req'[r].call.id]
                user == req'[r].call.user
                party == \/ user = Patient(note.patient)
                         \/ user = Practitioner(note.practitioner)
                         \/ user.role = "admin"
            IN IF party
                 THEN req'[r].status = 200 /\ "data" \in DOMAIN req'[r]
                 ELSE req'[r].status = 403 /\ "data" \notin DOMAIN req'[r]]_vars

\* the stored appointments that are user's own, by role
Mine(docs, user) ==
    {i \in DOMAIN docs :
        \/ user.role = "patient" /\ docs[i].patient = user.profileId
        \/ user.role = "practitioner" /\ docs[i].practitioner = user.profileId}

C23_RepeatedTerminalUpdateRefused ==
    [][\A r \in Req :
         (/\ Holds(req[r]) /\ req[r].pc # "done" /\ req'[r].pc = "done"
          /\ req[r].call.id \in DOMAIN appointments
          /\ req[r].call.body.status \in Terminal
          /\ appointments[req[r].call.id].status = req[r].call.body.status)
         => req'[r].status >= 400 /\ appointments' = appointments]_vars

\* C24: after a createAppointment answered 201, every list its patient and
\* its practitioner can be answered holds the created appointment with the
\* patient, practitioner, date, timeSlot and status pending that the call
\* stored and returned.
C24_CreatedAppointmentReadsBack ==
    [][\A r \in Req :
         (/\ req[r].pc = "create" /\ req[r].op = "createAppointment"
          /\ req'[r].pc = "done" /\ req'[r].status = 201)
         => LET id == Len(appointments')
                returned == NewAppointment(req[r])
            IN /\ appointments'[id] = returned
               /\ returned.status = "pending"
               /\ \A user \in {Patient(returned.patient), Practitioner(returned.practitioner)} :
                    \A data \in MyAppointments(appointments', user) :
                       \E k \in DOMAIN data :
                          /\ data[k]._id = id
                          /\ data[k].patient._id = returned.patient
                          /\ data[k].practitioner._id = returned.practitioner
                          /\ data[k].date = FormatDate(returned.date)
                          /\ ParseDate(data[k].date) = ParseDate(req[r].date)
                          /\ data[k].timeSlot = returned.timeSlot
                          /\ data[k].status = returned.status]_vars

\* the patient of the appointment created last has been answered a list that
\* holds it, pending
C24_Witness ==
    /\ \E r \in Req : Answered(r, "createAppointment", 201)
    /\ \E r \in Req :
         /\ Answered(r, "getMyAppointments", 200)
         /\ Len(appointments) > 0
         /\ req[r].call.user = Patient(appointments[Len(appointments)].patient)
         /\ \E k \in DOMAIN req[r].data :
              /\ req[r].data[k]._id = Len(appointments)
              /\ req[r].data[k].status = "pending"

\* C25: a stored appointment has a location exactly when its mode is
\* in-person.
C25_LocationIffInPerson ==
    \A i \in DOMAIN appointments :
        Has(appointments[i], "location") <=> appointments[i].mode = "in-person"

\* C26: no step removes an appointment: every stored appointment stays
\* stored, under its id and with its patient and practitioner, and one that
\* is pending, confirmed or rescheduled stops being so only by becoming
\* completed or cancelled.
C26_AppointmentsNeverDeleted ==
    [][/\ Len(appointments') >= Len(appointments)
       /\ \A i \in DOMAIN appointments :
            /\ appointments'[i].patient = appointments[i].patient
            /\ appointments'[i].practitioner = appointments[i].practitioner
            /\ (appointments[i].status \in NonTerminal
                 /\ appointments'[i].status \notin NonTerminal)
               => appointments'[i].status \in Terminal]_vars

\* an appointment has been cancelled by a status update and is still stored
C26_Witness ==
    /\ \E i \in DOMAIN appointments : appointments[i].status = "cancelled"
    /\ \E r \in Req : Answered(r, "updateAppointmentStatus", 200)

\* C27: the write of a status update leaves every other appointment as it
\* was and, of the addressed one, changes at most status, sessionLink and
\* notes; the stored sessionLink stays when the target status is not
\* confirmed, and the stored notes stay when the request carries none.
C27_UpdateTouchesOnlyItsPaths ==
    [][\A r \in Req :
         (/\ Holds(req[r]) /\ req[r].pc = "findByIdAndUpdate"
          /\ req'[r].pc = "done" /\ req'[r].status = 200)
         => LET id == req[r].call.id
                body == req[r].call.body
            IN /\ DOMAIN appointments' = DOMAIN appointments
               /\ \A i \in DOMAIN appointments : i # id => appointments'[i] = appointments[i]
               /\ \A path \in {"patient", "practitioner", "date", "timeSlot", "mode", "location"} :
                    appointments'[id][path] = appointments[id][path]
               /\ body.status # "confirmed"
                    => appointments'[id].sessionLink = appointments[id].sessionLink
               /\ body.notes = NoValue
                    => appointments'[id].notes = appointments[id].notes]_vars

\* the request that request r is serving or, in the next state, has served
CallOf(r) == IF "call" \in DOMAIN req'[r] THEN req'[r].call ELSE req[r].call

C29_BookingPathsAgree ==
    \A practitionerId \in PractitionerIds, patientId \in PatientIds,
       date \in {"2024-05-01", "2024-05-02"}, timeSlot \in TimeSlots :
        checkForConflicts(appointments, practitionerId, patientId, date, timeSlot, 0)
        <=> ~checkAvailability(appointments, practitionerId, date, timeSlot)

\* the call was refused before line 15, or stopped there: no transaction
NoTransaction(l) ==
    l.message \in {"Access denied.", "ReferenceError: mongoose is not defined"}

\* C30: every step that ends a createClinicalNote call which started a
\* transaction leaves the session ended and exactly one response sent, 201,
\* 404, 403, 409 or 500; the note and the completed status become visible
\* only in the step that commits, after both writes, and that step answers
\* 201.
C30_TransactionAlwaysFinished ==
    [][\A r \in Req :
         (/\ req'[r] # req[r] /\ req'[r].pc = "done"
          /\ req'[r].op = "createClinicalNote" /\ ~NoTransaction(req'[r]))
         => /\ session'[r] = NoSession
            /\ req'[r].status \in {201, 404, 403, 409, 500}
            /\ clinicalNotes' # clinicalNotes
                 => /\ req[r].pc = "commitTransaction"
                    /\ session[r].writes = {"note", "appointment"}
            /\ req'[r].status = 201 <=> clinicalNotes' # clinicalNotes]_vars

=============================================================================
